---- MODULE Spec2Model ----
(***************************************************************************)
(* voicememocli (src/src/main.c): a control thread (main, handle_command,  *)
(* update) and the two SDL audio callbacks that share recording_buffer,    *)
(* buffer_byte_position and recording_state.                               *)
(*                                                                         *)
(* The control thread is cut at every statement that touches a shared      *)
(* variable or an audio device, so that the callbacks interleave with it   *)
(* exactly where the audio thread can.  A callback runs under the device   *)
(* lock SDL takes around it and is one step.                               *)
(***************************************************************************)
EXTENDS Integers, Sequences, FiniteSets, TLC

VARIABLES
  pc,                                \* position of the control thread
  argv_cmd,                          \* shape of the command line (argc/argv)
  param_device,                      \* arg_cmd_record.device / param.device
  available_recording_device_count,
  sdl_device_count,                  \* what SDL_GetNumAudioDevices(SDL_TRUE) returned
  available_device_names,            \* index -> entry, no index before init()
  recording_state,
  recording_deviceid,
  playback_deviceid,
  recording_paused,                  \* pause status of the capture device
  playback_paused,                   \* pause status of the playback device
  received_recording_spec,
  recording_buffer,
  buffer_byte_size,
  buffer_byte_position,
  buffer_byte_max_position,
  lock,                              \* device id whose lock main holds, 0 = none
  branch,                            \* the branch update() took
  loop,                              \* which do-while of main is running
  exit_code,                         \* main's return value, set when pc = "exited"
  captured,                          \* history: bytes delivered by the capture device this pass
  played,                            \* history: bytes handed to the playback device this pass
  events,                            \* history: device calls made by the control thread
  oob                                \* history: a memcpy went outside recording_buffer

vars == << pc, argv_cmd, param_device, available_recording_device_count,
           sdl_device_count, available_device_names,
           recording_state, recording_deviceid, playback_deviceid,
           recording_paused, playback_paused, received_recording_spec,
           recording_buffer, buffer_byte_size, buffer_byte_position,
           buffer_byte_max_position, lock, branch, loop, exit_code,
           captured, played, events, oob >>

----------------------------------------------------------------------------
(* Bounds of the model *)

\* SDL_GetNumAudioDevices returns -1 .. MaxPlatformDevices
MaxPlatformDevices == 6
\* strtol of the -d argument yields -1 .. MaxDeviceArg
MaxDeviceArg == 5
\* sample rates the scaled capture device negotiates: 1 .. MaxFreq
MaxFreq == 1
\* channel counts the scaled capture device negotiates: 1 .. MaxChannels
MaxChannels == 1
\* a callback is handed 1 .. MaxChunk bytes
MaxChunk == 3
\* callbacks stop being delivered once the cursor is this far past the buffer
MaxOverrun == 2

----------------------------------------------------------------------------
(* Program constants *)

MAX_RECORDING_DEVICES == 5
MAX_RECORDING_SECONDS == 5
RECORDING_BUFFER_SECONDS == MAX_RECORDING_SECONDS + 1

SELECTING_DEVICE == "SELECTING_DEVICE"
STOPPED == "STOPPED"
RECORDING == "RECORDING"
RECORDED == "RECORDED"
PLAYBACK == "PLAYBACK"
ERROR == "ERROR"

\* SDL_AudioFormat codes (Uint16)
AUDIO_U8 == 8
AUDIO_S16 == 32784
AUDIO_S32 == 32800
AUDIO_F32 == 33056

\* char key_press = 'd';
key_press == "d"

\* device ids SDL hands out for the two opened devices; 0 is failure
CaptureDeviceId == 2
PlaybackDeviceId == 3

Min(a, b) == IF a < b THEN a ELSE b
Max(a, b) == IF a > b THEN a ELSE b

----------------------------------------------------------------------------
(* Audio formats and buffer sizing.  The sizes and the cursor are Uint32   *)
(* in the program; every value the model reaches is far below 2^31, so no  *)
(* arithmetic here wraps.                                                  *)

desired_recording_spec == [freq |-> 44100, format |-> AUDIO_F32, channels |-> 2]

NoSpec == [freq |-> 0, format |-> 0, channels |-> 0]

\* #define SDL_AUDIO_BITSIZE(x) (x & SDL_AUDIO_MASK_BITSIZE), the mask is 0xFF
SDL_AUDIO_BITSIZE(format) == format % 256

BytesPerSample(spec) == spec.channels * (SDL_AUDIO_BITSIZE(spec.format) \div 8)

\* the sizes taken from the format that was asked for
BytesPerSecondDesired(spec) ==
  desired_recording_spec.freq * BytesPerSample(desired_recording_spec)

BytesPerSecond(spec) == spec.freq * BytesPerSample(spec)

BufferByteSize(spec) == RECORDING_BUFFER_SECONDS * BytesPerSecond(spec)

BufferByteMaxPosition(spec) == MAX_RECORDING_SECONDS * BytesPerSecond(spec)

\* formats the scaled capture device may hand back: the rates are scaled
\* down so that a buffer holds a handful of bytes (the real rates are in
\* BackendFormats, for the sizing)
ScaledFormats ==
  [freq : 1..MaxFreq, format : {AUDIO_U8, AUDIO_S16}, channels : 1..MaxChannels]

----------------------------------------------------------------------------
(* recording_buffer.  calloc hands out zeroed storage of buffer_byte_size  *)
(* bytes; the model keeps the bytes up to the highest offset written so    *)
(* far, every offset after them up to buffer_byte_size reads as 0.         *)

NullBuffer == [null |-> TRUE, bytes |-> << >>]

Calloc == [null |-> FALSE, bytes |-> << >>]

BufferAt(buf, i) == IF i < Len(buf.bytes) THEN buf.bytes[i + 1] ELSE 0

\* memcpy(&recording_buffer[pos], stream, n) for a copy that fits the buffer
MemcpyIn(buf, pos, stream, n) ==
  [buf EXCEPT !.bytes =
     [i \in 1..Max(Len(buf.bytes), pos + n) |->
        IF i - 1 >= pos /\ i - 1 < pos + n THEN stream[i - pos]
        ELSE IF i <= Len(buf.bytes) THEN buf.bytes[i]
        ELSE 0]]

\* memcpy(stream, &recording_buffer[pos], n) for a copy that fits the buffer
MemcpyOut(buf, pos, n) == [k \in 1..n |-> BufferAt(buf, pos + k - 1)]

\* the n-th byte the capture hardware delivers in a pass; the program never
\* looks at sample values, so each byte carries its place in the stream
SampleByte(n) == ((n - 1) % 255) + 1

\* what a read outside the buffer may return
OobBytes == {0, 255}

----------------------------------------------------------------------------
(* update()'s test and main's loop condition *)

\* the test with >= for >
PastMaxPositionInclusive(position, max_position) == position >= max_position

\* buffer_byte_position > buffer_byte_max_position
PastMaxPosition(position, max_position) == position > max_position

\* the loop condition with == for !=
LoopContinuesInverted(state) == state = RECORDED

\* while (recording_state != RECORDED)
LoopContinues(state) == state # RECORDED

\* main without the playback test
AfterLoopNoPlayback(which) == "close"

\* what main does when a do-while ends: the playback test after the first,
\* CLOSE after the second
AfterLoop(which) == IF which = "recording" THEN "main_reset" ELSE "close"

\* update() with the two device ids exchanged
BranchDeviceSwapped(taken, capture_id, playback_id) ==
  IF taken = "recording" THEN playback_id ELSE capture_id

\* the device update() locks and pauses: recording_deviceid in the
\* RECORDING branch, playback_deviceid in the PLAYBACK branch
BranchDevice(taken, capture_id, playback_id) ==
  IF taken = "recording" THEN capture_id ELSE playback_id

\* the cursor left where it was
RewoundPositionKept(position) == position

\* buffer_byte_position = 0; (go back to the beginning of the buffer)
RewoundPosition(position) == 0

\* param.device < available_recording_device_count
IndexIsValid(device, count) == device < count

\* the failure test for a negative id: SDL reports failure as 0
OpenFailedNegative(deviceid) == deviceid < 0

\* recording_deviceid == 0 / playback_deviceid == 0
OpenFailed(deviceid) == deviceid = 0

Running == pc \notin {"exited", "crashed"}

----------------------------------------------------------------------------
(* init(): the device catalog *)

\* no cap on the device count
CapDeviceCountNone(n) == n

\* if (available_recording_device_count > MAX_RECORDING_DEVICES) count = MAX_RECORDING_DEVICES
CapDeviceCount(n) == IF n > MAX_RECORDING_DEVICES THEN MAX_RECORDING_DEVICES ELSE n

\* char** available_device_names = NULL;
NoDeviceNames == [i \in {} |-> 0]

\* for (i = 0; i < count; i++) available_device_names[i] = "[i] : <name of
\* the platform's capture device i>"
DeviceNames(count) == [i \in 0..(count - 1) |-> [index |-> i, device |-> i]]

----------------------------------------------------------------------------
Init ==
  /\ pc = "main"
  /\ argv_cmd \in {"none", "show", "listen", "listen_nokey", "record",
                   "record_short", "record_noflags", "help", "other"}
  /\ param_device = 0
  /\ available_recording_device_count = 0
  /\ sdl_device_count = 0
  /\ available_device_names = NoDeviceNames
  /\ recording_state = SELECTING_DEVICE
  /\ recording_deviceid = 0
  /\ playback_deviceid = 0
  /\ recording_paused = TRUE
  /\ playback_paused = TRUE
  /\ received_recording_spec = NoSpec
  /\ recording_buffer = NullBuffer
  /\ buffer_byte_size = 0
  /\ buffer_byte_position = 0
  /\ buffer_byte_max_position = 0
  /\ lock = 0
  /\ branch = "none"
  /\ loop = "none"
  /\ exit_code = 0
  /\ captured = << >>
  /\ played = << >>
  /\ events = << >>
  /\ oob = FALSE

----------------------------------------------------------------------------
(* main: start-up and command line *)

\* close(); return code;   (SDL_Quit closes both devices)
Exit(code) ==
  /\ pc' = "exited"
  /\ exit_code' = code

\* SDL_Init at the top of main
main_sdl_init ==
  /\ pc = "main"
  /\ \E ok \in BOOLEAN :
       IF ok THEN pc' = "init" /\ UNCHANGED exit_code
             ELSE Exit(-1)
  /\ UNCHANGED << argv_cmd, param_device, available_recording_device_count,
                  sdl_device_count, available_device_names,
                  recording_state, recording_deviceid, playback_deviceid,
                  recording_paused, playback_paused, received_recording_spec,
                  recording_buffer, buffer_byte_size, buffer_byte_position,
                  buffer_byte_max_position, lock, branch, loop,
                  captured, played, events, oob >>

\* init() and main's "if (!init()) goto CLOSE;"
init ==
  /\ pc = "init"
  /\ \E n \in -1..MaxPlatformDevices :
       /\ sdl_device_count' = n
       /\ IF n < 1
            THEN /\ available_recording_device_count' = n
                 /\ UNCHANGED available_device_names
                 /\ pc' = "close"
            ELSE /\ available_recording_device_count' = CapDeviceCount(n)
                 /\ available_device_names' = DeviceNames(CapDeviceCount(n))
                 /\ pc' = "argv"
  /\ UNCHANGED << argv_cmd, param_device,
                  recording_state, recording_deviceid, playback_deviceid,
                  recording_paused, playback_paused, received_recording_spec,
                  recording_buffer, buffer_byte_size, buffer_byte_position,
                  buffer_byte_max_position, lock, branch, loop, exit_code,
                  captured, played, events, oob >>

\* argc < 2, listen without a key, record with too few arguments or without
\* both flags, an unrecognized command: usage message, close(), return -1
main_usage_error ==
  /\ pc = "argv"
  /\ argv_cmd \in {"none", "listen_nokey", "record_short", "record_noflags", "other"}
  /\ Exit(-1)
  /\ UNCHANGED << argv_cmd, param_device, available_recording_device_count,
                  sdl_device_count, available_device_names,
                  recording_state, recording_deviceid, playback_deviceid,
                  recording_paused, playback_paused, received_recording_spec,
                  recording_buffer, buffer_byte_size, buffer_byte_position,
                  buffer_byte_max_position, lock, branch, loop,
                  captured, played, events, oob >>

\* show, listen <KEY>, help: handle_command prints and its trailing switch
\* finds recording_state == SELECTING_DEVICE; main falls through to CLOSE
main_print_command ==
  /\ pc = "argv"
  /\ argv_cmd \in {"show", "listen", "help"}
  /\ pc' = "close"
  /\ UNCHANGED << argv_cmd, param_device, available_recording_device_count,
                  sdl_device_count, available_device_names,
                  recording_state, recording_deviceid, playback_deviceid,
                  recording_paused, playback_paused, received_recording_spec,
                  recording_buffer, buffer_byte_size, buffer_byte_position,
                  buffer_byte_max_position, lock, branch, loop, exit_code,
                  captured, played, events, oob >>

\* record -k KEY -d INDEX: arg_cmd_record.device = strtol(argv[i+1], NULL, 10)
main_record_args ==
  /\ pc = "argv"
  /\ argv_cmd = "record"
  /\ \E d \in -1..MaxDeviceArg : param_device' = d
  /\ pc' = "hc_record"
  /\ UNCHANGED << argv_cmd, available_recording_device_count,
                  sdl_device_count, available_device_names,
                  recording_state, recording_deviceid, playback_deviceid,
                  recording_paused, playback_paused, received_recording_spec,
                  recording_buffer, buffer_byte_size, buffer_byte_position,
                  buffer_byte_max_position, lock, branch, loop, exit_code,
                  captured, played, events, oob >>

\* CLOSE: close(); return 0;
main_close ==
  /\ pc = "close"
  /\ Exit(0)
  /\ UNCHANGED << argv_cmd, param_device, available_recording_device_count,
                  sdl_device_count, available_device_names,
                  recording_state, recording_deviceid, playback_deviceid,
                  recording_paused, playback_paused, received_recording_spec,
                  recording_buffer, buffer_byte_size, buffer_byte_position,
                  buffer_byte_max_position, lock, branch, loop,
                  captured, played, events, oob >>

----------------------------------------------------------------------------
(* handle_command(CMDTYPE_RECORD, ...) *)

\* if (param.device < available_recording_device_count)
hc_check_index ==
  /\ pc = "hc_record"
  /\ pc' = IF IndexIsValid(param_device, available_recording_device_count)
             THEN "hc_open_recording" ELSE "hc_switch"
  /\ UNCHANGED << argv_cmd, param_device, available_recording_device_count,
                  sdl_device_count, available_device_names,
                  recording_state, recording_deviceid, playback_deviceid,
                  recording_paused, playback_paused, received_recording_spec,
                  recording_buffer, buffer_byte_size, buffer_byte_position,
                  buffer_byte_max_position, lock, branch, loop, exit_code,
                  captured, played, events, oob >>

\* recording_deviceid = SDL_OpenAudioDevice(SDL_GetAudioDeviceName(param.device, SDL_TRUE), ...)
\* SDL_GetAudioDeviceName gives NULL for an index outside the platform's list,
\* and SDL_OpenAudioDevice(NULL, ...) asks for the default device.
\* A device opens paused.
hc_open_recording ==
  /\ pc = "hc_open_recording"
  /\ events' = Append(events, "open_recording")
  /\ \E id \in {0, CaptureDeviceId} :
       /\ recording_deviceid' = id
       /\ IF OpenFailed(id)
            THEN /\ recording_state' = ERROR
                 /\ pc' = "hc_switch"
                 /\ UNCHANGED << received_recording_spec, recording_paused >>
            ELSE /\ \E spec \in ScaledFormats : received_recording_spec' = spec
                 /\ recording_paused' = TRUE
                 /\ pc' = "hc_open_playback"
                 /\ UNCHANGED recording_state
  /\ UNCHANGED << argv_cmd, param_device, available_recording_device_count,
                  sdl_device_count, available_device_names,
                  playback_deviceid, playback_paused,
                  recording_buffer, buffer_byte_size, buffer_byte_position,
                  buffer_byte_max_position, lock, branch, loop, exit_code,
                  captured, played, oob >>

\* playback_deviceid = SDL_OpenAudioDevice(NULL, SDL_FALSE, ...)
hc_open_playback ==
  /\ pc = "hc_open_playback"
  /\ events' = Append(events, "open_playback")
  /\ \E id \in {0, PlaybackDeviceId} :
       /\ playback_deviceid' = id
       /\ IF OpenFailed(id)
            THEN /\ recording_state' = ERROR
                 /\ pc' = "hc_switch"
                 /\ UNCHANGED playback_paused
            ELSE /\ playback_paused' = TRUE
                 /\ pc' = "hc_alloc"
                 /\ UNCHANGED recording_state
  /\ UNCHANGED << argv_cmd, param_device, available_recording_device_count,
                  sdl_device_count, available_device_names,
                  recording_deviceid, recording_paused, received_recording_spec,
                  recording_buffer, buffer_byte_size, buffer_byte_position,
                  buffer_byte_max_position, lock, branch, loop, exit_code,
                  captured, played, oob >>

\* buffer sizes from received_recording_spec, calloc, recording_state = STOPPED
hc_alloc ==
  /\ pc = "hc_alloc"
  /\ buffer_byte_size' = BufferByteSize(received_recording_spec)
  /\ buffer_byte_max_position' = BufferByteMaxPosition(received_recording_spec)
  /\ recording_buffer' = Calloc
  /\ recording_state' = STOPPED
  /\ events' = Append(events, "calloc")
  /\ pc' = "hc_reset"
  /\ UNCHANGED << argv_cmd, param_device, available_recording_device_count,
                  sdl_device_count, available_device_names,
                  recording_deviceid, playback_deviceid,
                  recording_paused, playback_paused, received_recording_spec,
                  buffer_byte_position, lock, branch, loop, exit_code,
                  captured, played, oob >>

\* buffer_byte_position = 0;
hc_reset ==
  /\ pc = "hc_reset"
  /\ buffer_byte_position' = RewoundPosition(buffer_byte_position)
  /\ captured' = << >>
  /\ pc' = "hc_start"
  /\ UNCHANGED << argv_cmd, param_device, available_recording_device_count,
                  sdl_device_count, available_device_names,
                  recording_state, recording_deviceid, playback_deviceid,
                  recording_paused, playback_paused, received_recording_spec,
                  recording_buffer, buffer_byte_size,
                  buffer_byte_max_position, lock, branch, loop, exit_code,
                  played, events, oob >>

\* SDL_PauseAudioDevice(recording_deviceid, SDL_FALSE);
hc_start ==
  /\ pc = "hc_start"
  /\ recording_paused' = FALSE
  /\ events' = Append(events, "start_recording")
  /\ pc' = "hc_set_recording"
  /\ UNCHANGED << argv_cmd, param_device, available_recording_device_count,
                  sdl_device_count, available_device_names,
                  recording_state, recording_deviceid, playback_deviceid,
                  playback_paused, received_recording_spec,
                  recording_buffer, buffer_byte_size, buffer_byte_position,
                  buffer_byte_max_position, lock, branch, loop, exit_code,
                  captured, played, oob >>

\* recording_state = RECORDING;
hc_set_recording ==
  /\ pc = "hc_set_recording"
  /\ recording_state' = RECORDING
  /\ pc' = "hc_switch"
  /\ UNCHANGED << argv_cmd, param_device, available_recording_device_count,
                  sdl_device_count, available_device_names,
                  recording_deviceid, playback_deviceid,
                  recording_paused, playback_paused, received_recording_spec,
                  recording_buffer, buffer_byte_size, buffer_byte_position,
                  buffer_byte_max_position, lock, branch, loop, exit_code,
                  captured, played, events, oob >>

\* the switch (recording_state) that ends handle_command; key_press is 'd'
hc_switch ==
  /\ pc = "hc_switch"
  /\ pc' = "main_after_record"
  /\ IF recording_state = RECORDED /\ key_press = "1"
       THEN /\ buffer_byte_position' = RewoundPosition(buffer_byte_position)
            /\ playback_paused' = FALSE
            /\ recording_state' = PLAYBACK
            /\ events' = Append(events, "start_playback")
            /\ played' = << >>
            /\ UNCHANGED << recording_buffer, recording_paused, captured >>
       ELSE IF recording_state = RECORDED /\ key_press = "2"
       THEN /\ buffer_byte_position' = RewoundPosition(buffer_byte_position)
            /\ recording_buffer' = Calloc
            /\ recording_paused' = FALSE
            /\ recording_state' = RECORDING
            /\ events' = Append(events, "start_recording")
            /\ captured' = << >>
            /\ UNCHANGED << playback_paused, played >>
       ELSE UNCHANGED << buffer_byte_position, recording_buffer, recording_paused,
                         playback_paused, recording_state, events, captured, played >>
  /\ UNCHANGED << argv_cmd, param_device, available_recording_device_count,
                  sdl_device_count, available_device_names,
                  recording_deviceid, playback_deviceid, received_recording_spec,
                  buffer_byte_size, buffer_byte_max_position,
                  lock, branch, loop, exit_code, oob >>

----------------------------------------------------------------------------
(* main after handle_command(CMDTYPE_RECORD, ...) returns *)

\* if (recording_state == RECORDING) { do { update } while ... } else { close(); return -1; }
main_after_record ==
  /\ pc = "main_after_record"
  /\ IF recording_state = RECORDING
       THEN /\ pc' = "update"
            /\ loop' = "recording"
            /\ UNCHANGED exit_code
       ELSE /\ Exit(-1)
            /\ UNCHANGED loop
  /\ UNCHANGED << argv_cmd, param_device, available_recording_device_count,
                  sdl_device_count, available_device_names,
                  recording_state, recording_deviceid, playback_deviceid,
                  recording_paused, playback_paused, received_recording_spec,
                  recording_buffer, buffer_byte_size, buffer_byte_position,
                  buffer_byte_max_position, lock, branch,
                  captured, played, events, oob >>

\* update(): the two tests made without a lock.  The read of
\* buffer_byte_position races with the callback; it sees the cursor before
\* or after a whole callback, which is what the interleaving gives.
update_test ==
  /\ pc = "update"
  /\ IF recording_state = RECORDING
          /\ PastMaxPosition(buffer_byte_position, buffer_byte_max_position)
       THEN branch' = "recording" /\ pc' = "update_lock"
       ELSE IF recording_state = PLAYBACK
               /\ PastMaxPosition(buffer_byte_position, buffer_byte_max_position)
       THEN branch' = "playback" /\ pc' = "update_lock"
       ELSE branch' = "none" /\ pc' = "while"
  /\ UNCHANGED << argv_cmd, param_device, available_recording_device_count,
                  sdl_device_count, available_device_names,
                  recording_state, recording_deviceid, playback_deviceid,
                  recording_paused, playback_paused, received_recording_spec,
                  recording_buffer, buffer_byte_size, buffer_byte_position,
                  buffer_byte_max_position, lock, loop, exit_code,
                  captured, played, events, oob >>

\* SDL_LockAudioDevice(recording_deviceid) / SDL_LockAudioDevice(playback_deviceid)
update_lock ==
  /\ pc = "update_lock"
  /\ lock' = BranchDevice(branch, recording_deviceid, playback_deviceid)
  /\ pc' = "update_pause"
  /\ UNCHANGED << argv_cmd, param_device, available_recording_device_count,
                  sdl_device_count, available_device_names,
                  recording_state, recording_deviceid, playback_deviceid,
                  recording_paused, playback_paused, received_recording_spec,
                  recording_buffer, buffer_byte_size, buffer_byte_position,
                  buffer_byte_max_position, branch, loop, exit_code,
                  captured, played, events, oob >>

\* SDL_PauseAudioDevice(recording_deviceid, SDL_TRUE) / (playback_deviceid, SDL_TRUE)
update_pause ==
  /\ pc = "update_pause"
  /\ IF BranchDevice(branch, recording_deviceid, playback_deviceid) = recording_deviceid
       THEN /\ recording_paused' = TRUE
            /\ events' = Append(events, "pause_recording")
            /\ UNCHANGED playback_paused
       ELSE /\ playback_paused' = TRUE
            /\ events' = Append(events, "pause_playback")
            /\ UNCHANGED recording_paused
  /\ pc' = "update_set_recorded"
  /\ UNCHANGED << argv_cmd, param_device, available_recording_device_count,
                  sdl_device_count, available_device_names,
                  recording_state, recording_deviceid, playback_deviceid,
                  received_recording_spec,
                  recording_buffer, buffer_byte_size, buffer_byte_position,
                  buffer_byte_max_position, lock, branch, loop, exit_code,
                  captured, played, oob >>

\* recording_state = RECORDED;
update_set_recorded ==
  /\ pc = "update_set_recorded"
  /\ recording_state' = RECORDED
  /\ pc' = "update_unlock"
  /\ UNCHANGED << argv_cmd, param_device, available_recording_device_count,
                  sdl_device_count, available_device_names,
                  recording_deviceid, playback_deviceid,
                  recording_paused, playback_paused, received_recording_spec,
                  recording_buffer, buffer_byte_size, buffer_byte_position,
                  buffer_byte_max_position, lock, branch, loop, exit_code,
                  captured, played, events, oob >>

\* SDL_UnlockAudioDevice(...); update returns
update_unlock ==
  /\ pc = "update_unlock"
  /\ lock' = 0
  /\ branch' = "none"
  /\ pc' = "while"
  /\ UNCHANGED << argv_cmd, param_device, available_recording_device_count,
                  sdl_device_count, available_device_names,
                  recording_state, recording_deviceid, playback_deviceid,
                  recording_paused, playback_paused, received_recording_spec,
                  recording_buffer, buffer_byte_size, buffer_byte_position,
                  buffer_byte_max_position, loop, exit_code,
                  captured, played, events, oob >>

\* } while (recording_state != RECORDED);
main_while ==
  /\ pc = "while"
  /\ IF LoopContinues(recording_state)
       THEN pc' = "update" /\ UNCHANGED loop
       ELSE /\ pc' = AfterLoop(loop)
            /\ loop' = "none"
  /\ UNCHANGED << argv_cmd, param_device, available_recording_device_count,
                  sdl_device_count, available_device_names,
                  recording_state, recording_deviceid, playback_deviceid,
                  recording_paused, playback_paused, received_recording_spec,
                  recording_buffer, buffer_byte_size, buffer_byte_position,
                  buffer_byte_max_position, lock, branch, exit_code,
                  captured, played, events, oob >>

\* test playback: buffer_byte_position = 0;
main_reset ==
  /\ pc = "main_reset"
  /\ buffer_byte_position' = RewoundPosition(buffer_byte_position)
  /\ played' = << >>
  /\ pc' = "main_start"
  /\ UNCHANGED << argv_cmd, param_device, available_recording_device_count,
                  sdl_device_count, available_device_names,
                  recording_state, recording_deviceid, playback_deviceid,
                  recording_paused, playback_paused, received_recording_spec,
                  recording_buffer, buffer_byte_size,
                  buffer_byte_max_position, lock, branch, loop, exit_code,
                  captured, events, oob >>

\* SDL_PauseAudioDevice(playback_deviceid, SDL_FALSE);
main_start ==
  /\ pc = "main_start"
  /\ playback_paused' = FALSE
  /\ events' = Append(events, "start_playback")
  /\ pc' = "main_set_playback"
  /\ UNCHANGED << argv_cmd, param_device, available_recording_device_count,
                  sdl_device_count, available_device_names,
                  recording_state, recording_deviceid, playback_deviceid,
                  recording_paused, received_recording_spec,
                  recording_buffer, buffer_byte_size, buffer_byte_position,
                  buffer_byte_max_position, lock, branch, loop, exit_code,
                  captured, played, oob >>

\* recording_state = PLAYBACK; then the second do-while
main_set_playback ==
  /\ pc = "main_set_playback"
  /\ recording_state' = PLAYBACK
  /\ loop' = "playback"
  /\ pc' = "update"
  /\ UNCHANGED << argv_cmd, param_device, available_recording_device_count,
                  sdl_device_count, available_device_names,
                  recording_deviceid, playback_deviceid,
                  recording_paused, playback_paused, received_recording_spec,
                  recording_buffer, buffer_byte_size, buffer_byte_position,
                  buffer_byte_max_position, lock, branch, exit_code,
                  captured, played, events, oob >>

----------------------------------------------------------------------------
(* The audio callbacks.  SDL's audio thread calls a device's callback      *)
(* while the device is open and not paused, holding the device lock.       *)
(* Neither callback compares len with the room left in recording_buffer:   *)
(* a memcpy that runs past buffer_byte_size is undefined behaviour, and    *)
(* the process either dies there or carries on with the cursor advanced.   *)

\* bytes of a copy of len bytes at position that fall inside the buffer
RoomAt(position, len) == Max(0, Min(len, buffer_byte_size - position))

audio_recording_callback ==
  /\ Running
  /\ recording_deviceid # 0
  /\ ~recording_paused
  /\ lock # recording_deviceid
  /\ buffer_byte_position < buffer_byte_size + MaxOverrun
  /\ \E len \in 1..MaxChunk :
       LET stream == [k \in 1..len |-> SampleByte(Len(captured) + k)]
           room == RoomAt(buffer_byte_position, len)
       IN  IF room = len
             THEN /\ recording_buffer' =
                       MemcpyIn(recording_buffer, buffer_byte_position, stream, len)
                  /\ buffer_byte_position' = buffer_byte_position + len
                  /\ captured' = captured \o stream
                  /\ UNCHANGED << pc, oob >>
             ELSE /\ oob' = TRUE
                  /\ \E survives \in BOOLEAN :
                       IF survives
                         THEN /\ recording_buffer' =
                                   IF room > 0
                                     THEN MemcpyIn(recording_buffer, buffer_byte_position,
                                                   stream, room)
                                     ELSE recording_buffer
                              /\ buffer_byte_position' =
                                   buffer_byte_position + len
                              /\ captured' = captured \o stream
                              /\ UNCHANGED pc
                         ELSE /\ pc' = "crashed"
                              /\ UNCHANGED << recording_buffer, buffer_byte_position,
                                              captured >>
  /\ UNCHANGED << argv_cmd, param_device, available_recording_device_count,
                  sdl_device_count, available_device_names,
                  recording_state, recording_deviceid, playback_deviceid,
                  recording_paused, playback_paused, received_recording_spec,
                  buffer_byte_size, buffer_byte_max_position,
                  lock, branch, loop, exit_code, played, events >>

audio_playback_callback ==
  /\ Running
  /\ playback_deviceid # 0
  /\ ~playback_paused
  /\ lock # playback_deviceid
  /\ buffer_byte_position < buffer_byte_size + MaxOverrun
  /\ \E len \in 1..MaxChunk :
       LET room == RoomAt(buffer_byte_position, len)
       IN  IF room = len
             THEN /\ played' = played \o MemcpyOut(recording_buffer,
                                                   buffer_byte_position, len)
                  /\ buffer_byte_position' = buffer_byte_position + len
                  /\ UNCHANGED << pc, oob >>
             ELSE /\ oob' = TRUE
                  /\ \E survives \in BOOLEAN :
                       IF survives
                         THEN /\ \E outside \in [1..(len - room) -> OobBytes] :
                                   played' = played
                                     \o MemcpyOut(recording_buffer,
                                                  buffer_byte_position, room)
                                     \o outside
                              /\ buffer_byte_position' =
                                   buffer_byte_position + len
                              /\ UNCHANGED pc
                         ELSE /\ pc' = "crashed"
                              /\ UNCHANGED << buffer_byte_position, played >>
  /\ UNCHANGED << argv_cmd, param_device, available_recording_device_count,
                  sdl_device_count, available_device_names,
                  recording_state, recording_deviceid, playback_deviceid,
                  recording_paused, playback_paused, received_recording_spec,
                  recording_buffer, buffer_byte_size, buffer_byte_max_position,
                  lock, branch, loop, exit_code, captured, events >>

----------------------------------------------------------------------------
Next ==
  \/ main_sdl_init
  \/ init
  \/ main_usage_error
  \/ main_print_command
  \/ main_record_args
  \/ main_close
  \/ hc_check_index
  \/ hc_open_recording
  \/ hc_open_playback
  \/ hc_alloc
  \/ hc_reset
  \/ hc_start
  \/ hc_set_recording
  \/ hc_switch
  \/ main_after_record
  \/ update_test
  \/ update_lock
  \/ update_pause
  \/ update_set_recorded
  \/ update_unlock
  \/ main_while
  \/ main_reset
  \/ main_start
  \/ main_set_playback
  \/ audio_recording_callback
  \/ audio_playback_callback

Spec == Init /\ [][Next]_vars

\* the steps of the control thread
ControlThread ==
  \/ main_sdl_init \/ init \/ main_usage_error \/ main_print_command
  \/ main_record_args \/ main_close
  \/ hc_check_index \/ hc_open_recording \/ hc_open_playback \/ hc_alloc
  \/ hc_reset \/ hc_start \/ hc_set_recording \/ hc_switch
  \/ main_after_record
  \/ update_test \/ update_lock \/ update_pause \/ update_set_recorded
  \/ update_unlock \/ main_while
  \/ main_reset \/ main_start \/ main_set_playback

\* The control thread keeps running (its loops never block), and an
\* unpaused device keeps calling its callback.
FairSpec ==
  /\ Init /\ [][Next]_vars
  /\ WF_vars(ControlThread)
  /\ WF_vars(audio_recording_callback)
  /\ WF_vars(audio_playback_callback)

TypeOK ==
  /\ recording_state \in {SELECTING_DEVICE, STOPPED, RECORDING, RECORDED, PLAYBACK, ERROR}
  /\ lock \in {0, CaptureDeviceId, PlaybackDeviceId}

----------------------------------------------------------------------------
(* Buffer sizing on its own: the state handle_command is in once both      *)
(* devices are open, for the formats an audio backend can hand back, and   *)
(* the sizing step of handle_command.                                      *)

BackendFormats ==
  [freq : {8000, 11025, 16000, 22050, 32000, 44100, 48000, 96000},
   format : {AUDIO_U8, AUDIO_S16, AUDIO_S32, AUDIO_F32},
   channels : {1, 2, 4, 6}]

SizingInit ==
  /\ pc = "hc_alloc"
  /\ argv_cmd = "record"
  /\ param_device = 0
  /\ available_recording_device_count = 1
  /\ sdl_device_count = 1
  /\ available_device_names = DeviceNames(1)
  /\ recording_state = SELECTING_DEVICE
  /\ recording_deviceid = CaptureDeviceId
  /\ playback_deviceid = PlaybackDeviceId
  /\ recording_paused = TRUE
  /\ playback_paused = TRUE
  /\ received_recording_spec \in BackendFormats
  /\ recording_buffer = NullBuffer
  /\ buffer_byte_size = 0
  /\ buffer_byte_position = 0
  /\ buffer_byte_max_position = 0
  /\ lock = 0
  /\ branch = "none"
  /\ loop = "none"
  /\ exit_code = 0
  /\ captured = << >>
  /\ played = << >>
  /\ events = << "open_recording", "open_playback" >>
  /\ oob = FALSE

SizingNext == hc_alloc

SizingSpec == SizingInit /\ [][SizingNext]_vars

----------------------------------------------------------------------------
(* update() on its own: the function called in every state of the          *)
(* recorder, as often as the caller likes, with the callbacks running.     *)

\* the first n bytes of a capture stream
StreamPrefix(n) == [k \in 1..n |-> SampleByte(k)]

\* the device calls made before the recorder is in a state
CallsBefore(state) ==
  CASE state = SELECTING_DEVICE -> << >>
    [] state = ERROR -> << "open_recording", "open_playback" >>
    [] state = STOPPED -> << "open_recording", "open_playback", "calloc" >>
    [] state = RECORDING ->
         << "open_recording", "open_playback", "calloc", "start_recording" >>
    [] state = RECORDED ->
         << "open_recording", "open_playback", "calloc", "start_recording",
            "pause_recording" >>
    [] state = PLAYBACK ->
         << "open_recording", "open_playback", "calloc", "start_recording",
            "pause_recording", "start_playback" >>

TickInit ==
  /\ pc = "update"
  /\ argv_cmd = "record"
  /\ param_device = 0
  /\ available_recording_device_count = 1
  /\ sdl_device_count = 1
  /\ available_device_names = DeviceNames(1)
  /\ lock = 0
  /\ branch = "none"
  /\ exit_code = 0
  /\ oob = FALSE
  /\ recording_state \in {SELECTING_DEVICE, STOPPED, RECORDING, RECORDED, PLAYBACK, ERROR}
  /\ events = CallsBefore(recording_state)
  /\ loop = IF recording_state = PLAYBACK THEN "playback" ELSE "recording"
  /\ recording_deviceid = IF recording_state = SELECTING_DEVICE THEN 0 ELSE CaptureDeviceId
  /\ playback_deviceid =
       IF recording_state \in {SELECTING_DEVICE, ERROR} THEN 0 ELSE PlaybackDeviceId
  /\ recording_paused = (recording_state # RECORDING)
  /\ playback_paused = (recording_state # PLAYBACK)
  /\ IF recording_state \in {SELECTING_DEVICE, ERROR}
       THEN /\ received_recording_spec =
                 IF recording_state = ERROR
                   THEN [freq |-> 1, format |-> AUDIO_U8, channels |-> 1]
                   ELSE NoSpec
            /\ recording_buffer = NullBuffer
            /\ buffer_byte_size = 0
            /\ buffer_byte_max_position = 0
            /\ buffer_byte_position = 0
            /\ captured = << >>
            /\ played = << >>
       ELSE /\ received_recording_spec \in ScaledFormats
            /\ buffer_byte_size = BufferByteSize(received_recording_spec)
            /\ buffer_byte_max_position = BufferByteMaxPosition(received_recording_spec)
            /\ \E recorded \in 0..buffer_byte_size :
                 /\ recording_state = STOPPED => recorded = 0
                 /\ recording_state \in {RECORDED, PLAYBACK}
                      => recorded > buffer_byte_max_position
                 /\ captured = StreamPrefix(recorded)
                 /\ recording_buffer = [null |-> FALSE, bytes |-> StreamPrefix(recorded)]
                 /\ IF recording_state = PLAYBACK
                      THEN /\ buffer_byte_position \in 0..buffer_byte_size
                           /\ played = MemcpyOut(recording_buffer, 0, buffer_byte_position)
                      ELSE /\ buffer_byte_position = recorded
                           /\ played = << >>

\* the caller calls update() again
call_update ==
  /\ pc = "while"
  /\ pc' = "update"
  /\ UNCHANGED << argv_cmd, param_device, available_recording_device_count,
                  sdl_device_count, available_device_names,
                  recording_state, recording_deviceid, playback_deviceid,
                  recording_paused, playback_paused, received_recording_spec,
                  recording_buffer, buffer_byte_size, buffer_byte_position,
                  buffer_byte_max_position, lock, branch, loop, exit_code,
                  captured, played, events, oob >>

TickNext ==
  \/ update_test
  \/ update_lock
  \/ update_pause
  \/ update_set_recorded
  \/ update_unlock
  \/ call_update
  \/ audio_recording_callback
  \/ audio_playback_callback

TickSpec == TickInit /\ [][TickNext]_vars

----------------------------------------------------------------------------
(* Properties *)

Started(e) == \E i \in 1..Len(events) : events[i] = e

\* the recording pass: from the start of the capture device until update()
\* sets RECORDED
InRecordingPass ==
  /\ Started("start_recording")
  /\ ~Started("start_playback")
  /\ recording_state # RECORDED

\* the playback pass: from the start of the playback device on
InPlaybackPass == Started("start_playback")

\* C1: during a recording pass the write position never exceeds the
\* capacity of the buffer, and no append copies more than the room left
\* (buffer_byte_size - buffer_byte_position), whatever the chunk lengths
\* and however late the capture device is paused.
C1_WritePositionWithinCapacity ==
  InRecordingPass => buffer_byte_position <= buffer_byte_size /\ ~oob

\* C2: during a playback pass the read position never exceeds the capacity
\* of the buffer: a playback callback advances it only by the bytes it took
\* from storage.
C2_ReadPositionWithinCapacity ==
  InPlaybackPass => buffer_byte_position <= buffer_byte_size

\* C3: during a recording pass the cursor is the cumulative number of
\* appended bytes; a tick detects completion exactly when that number is
\* strictly greater than buffer_byte_max_position, and recording_state
\* leaves RECORDING only then.
C3_CompletionIffPastMax ==
  [][ /\ (InRecordingPass' => buffer_byte_position' = Len(captured'))
      /\ (pc = "update" /\ recording_state = RECORDING
            /\ pc' \in {"update_lock", "while"})
           => ((pc' = "update_lock") <=> (Len(captured) > buffer_byte_max_position))
      /\ (recording_state = RECORDING /\ recording_state' # RECORDING)
           => Len(captured) > buffer_byte_max_position ]_vars

\* C3 witness: the recording pass was ended by the chunk that took the
\* cumulative count from exactly buffer_byte_max_position or below to
\* one byte past it.
C3_Witness ==
  /\ pc = "update_unlock"
  /\ branch = "recording"
  /\ recording_state = RECORDED
  /\ Len(captured) = buffer_byte_max_position + 1

\* C4: the bytes handed to the playback device, in callback order, are the
\* recorded bytes in the same order from offset 0: wherever both streams
\* have a byte, it is the same byte.
C4_RoundTrip ==
  InPlaybackPass =>
    \A i \in 1..Min(Len(played), Len(captured)) : played[i] = captured[i]

\* C5: at most one of the capture device and the playback device is
\* unpaused.
C5_AtMostOneStreaming ==
  ~( /\ recording_deviceid # 0 /\ ~recording_paused
     /\ playback_deviceid # 0 /\ ~playback_paused )

\* C5 witness: the playback device streams after the capture device has
\* streamed and been paused.
C5_Witness ==
  /\ ~playback_paused
  /\ recording_paused
  /\ Started("pause_recording")
  /\ Len(played) > 0

\* a record command whose INDEX is outside [0, count) has reached handle_command
RecordIndexInvalid ==
  /\ argv_cmd = "record"
  /\ available_recording_device_count >= 1
  /\ ~(0 <= param_device /\ param_device < available_recording_device_count)

\* C6: a record command whose INDEX is negative or not below the device
\* count touches no device, allocates no buffer, leaves the state
\* SELECTING_DEVICE, and exits with -1.
C6_InvalidIndexRejected ==
  RecordIndexInvalid =>
    /\ events = << >>
    /\ recording_buffer.null
    /\ recording_state = SELECTING_DEVICE
    /\ (pc = "exited" => exit_code = -1)

\* an open of the capture device or of the playback device has failed
AnOpenFailed ==
  \/ Started("open_recording") /\ recording_deviceid = 0
  \/ Started("open_playback") /\ playback_deviceid = 0

\* C7: once an open has failed the state is ERROR, no buffer is allocated,
\* neither device is unpaused or has ever been started, no pass runs, and
\* the process exits with -1.
C7_OpenFailureIsError ==
  AnOpenFailed =>
    /\ recording_state = ERROR
    /\ recording_buffer.null
    /\ recording_paused /\ playback_paused
    /\ ~Started("start_recording") /\ ~Started("start_playback")
    /\ captured = << >> /\ played = << >>
    /\ pc \in {"hc_switch", "main_after_record", "exited"}
    /\ (pc = "exited" => exit_code = -1)

\* C7 witness: the capture device opened, the playback device did not, and
\* the process has exited.
C7_Witness ==
  /\ pc = "exited"
  /\ recording_deviceid # 0
  /\ Started("open_playback")
  /\ playback_deviceid = 0

\* C8: when enumeration reports no capture device the process exits with -1
\* and has touched no device; 0 is returned only on success.
C8_NoCaptureDeviceExitsMinusOne ==
  (pc = "exited" /\ available_recording_device_count < 1) =>
    (exit_code = -1 /\ events = << >>)

\* the device calls of a record command, in the order main makes them
RecordCommandCalls ==
  << "open_recording", "open_playback", "calloc",
     "start_recording", "pause_recording", "start_playback", "pause_playback" >>

\* C9: the device calls of a record command are always a prefix of: open
\* both, allocate, start recording, pause recording, start playback, pause
\* playback; the playback device is started only with the state RECORDED
\* after the recording pass; and a record command that opened both devices
\* and returns has made all of them, once each, returns 0, and leaves the
\* state RECORDED with both devices paused.
C9_OnePassEachInOrder ==
  /\ Len(events) <= Len(RecordCommandCalls)
  /\ \A i \in 1..Len(events) : events[i] = RecordCommandCalls[i]
  /\ (pc = "main_start" => recording_state = RECORDED /\ recording_paused)
  /\ (pc = "exited" /\ recording_deviceid # 0 /\ playback_deviceid # 0) =>
        /\ events = RecordCommandCalls
        /\ exit_code = 0
        /\ recording_state = RECORDED
        /\ recording_paused /\ playback_paused

\* C9 witness: a record command has run both passes and returned.
C9_Witness ==
  /\ pc = "exited"
  /\ events = RecordCommandCalls
  /\ Len(captured) > 0
  /\ Len(played) > 0

\* bits per sample of an SDL audio format
BitsPerSample(format) ==
  CASE format = AUDIO_U8 -> 8
    [] format = AUDIO_S16 -> 16
    [] format = AUDIO_S32 -> 32
    [] format = AUDIO_F32 -> 32

\* C10: once the buffer is allocated, its sizes come from the received
\* capture format: with bytesPerSecond = rate * channels * (bits / 8), the
\* usable size is 5 * bytesPerSecond and the capacity 6 * bytesPerSecond,
\* so usable <= capacity; 44100 Hz, 2 channels, 32 bits give 352800,
\* 1764000 and 2116800.
C10_SizedFromReceivedFormat ==
  ~recording_buffer.null =>
    LET r == received_recording_spec
        bytesPerSecond == r.freq * r.channels * (BitsPerSample(r.format) \div 8)
    IN  /\ buffer_byte_max_position = 5 * bytesPerSecond
        /\ buffer_byte_size = 6 * bytesPerSecond
        /\ buffer_byte_max_position <= buffer_byte_size
        /\ (r.freq = 44100 /\ r.channels = 2 /\ BitsPerSample(r.format) = 32) =>
              /\ bytesPerSecond = 352800
              /\ buffer_byte_max_position = 1764000
              /\ buffer_byte_size = 2116800

\* C10 witness: a buffer sized for a received format that is not the
\* desired one.
C10_Witness ==
  /\ ~recording_buffer.null
  /\ received_recording_spec # desired_recording_spec
  /\ received_recording_spec.freq = 44100
  /\ received_recording_spec.channels = 2
  /\ received_recording_spec.format = AUDIO_S32
  /\ buffer_byte_size = 2116800

\* C11: after enumeration of n >= 1 capture devices the catalog holds
\* min(n, 5) devices, never more than 5, and exactly the indices 0 .. count-1
\* name an entry of it, each the platform's device of that index.
C11_CatalogCapped ==
  (pc \notin {"main", "init"} /\ sdl_device_count >= 1) =>
    /\ (sdl_device_count <= 5 => available_recording_device_count = sdl_device_count)
    /\ (sdl_device_count > 5 => available_recording_device_count = 5)
    /\ available_recording_device_count <= 5
    /\ \A i \in -1..(MaxPlatformDevices + 1) :
          (i \in DOMAIN available_device_names)
            <=> (0 <= i /\ i < available_recording_device_count)
    /\ \A i \in DOMAIN available_device_names :
          available_device_names[i] = [index |-> i, device |-> i]

\* C11 witness: the platform reported more than 5 devices and the catalog
\* holds 5.
C11_Witness ==
  /\ pc = "argv"
  /\ sdl_device_count > 5
  /\ available_recording_device_count = 5
  /\ DOMAIN available_device_names = 0..4

\* C12: update() takes RECORDING -> RECORDED and PLAYBACK -> RECORDED
\* holding the lock of the active device: the test of the cursor that
\* commits it to the transition is made with the lock held, the state
\* changes with the lock held and the device already paused, and the cursor
\* does not move while the lock is held.
C12_TransitionCheckedUnderLock ==
  [][ /\ (pc = "update" /\ pc' = "update_lock") => lock # 0
      /\ (recording_state # RECORDED /\ recording_state' = RECORDED) =>
            /\ lock = BranchDevice(branch, recording_deviceid, playback_deviceid)
            /\ lock # 0
            /\ recording_paused /\ playback_paused
      /\ (lock # 0 /\ lock' # 0) =>
            /\ buffer_byte_position' = buffer_byte_position
            /\ captured' = captured
            /\ played' = played ]_vars

\* a step of the control thread that writes the cursor (a reset before a
\* pass) or sets recording_state to RECORDING, PLAYBACK or RECORDED
ControlWritesCursorOrState ==
  /\ pc' # pc
  /\ pc' # "crashed"
  /\ \/ pc \in {"hc_reset", "main_reset"}
     \/ buffer_byte_position' # buffer_byte_position
     \/ /\ recording_state' # recording_state
        /\ recording_state' \in {RECORDING, PLAYBACK, RECORDED}

\* C13: while a device is open, the control thread writes the cursor and
\* sets RECORDING, PLAYBACK or RECORDED only while it holds a device lock.
C13_WritesUnderLock ==
  [][ (ControlWritesCursorOrState
         /\ (recording_deviceid # 0 \/ playback_deviceid # 0)) => lock # 0 ]_vars

\* C14: every step of the control thread that resets the cursor (the two
\* resets before a pass, or any step that moves the cursor back) sets it to
\* 0 and is taken with both devices paused, before and after the step.
C14_ResetsWhileBothPaused ==
  [][ ( /\ pc' # pc
        /\ pc' # "crashed"
        /\ \/ pc \in {"hc_reset", "main_reset"}
           \/ buffer_byte_position' < buffer_byte_position )
      => /\ buffer_byte_position' = 0
         /\ recording_paused /\ playback_paused
         /\ recording_paused' /\ playback_paused' ]_vars

\* C14 witness: the cursor has been reset after a recording pass that moved
\* it, with both devices paused.
C14_Witness ==
  /\ pc = "main_start"
  /\ buffer_byte_position = 0
  /\ Len(captured) > buffer_byte_max_position
  /\ recording_paused /\ playback_paused

\* the transitions the recorder may take
ListedTransitions ==
  { << SELECTING_DEVICE, STOPPED >>, << SELECTING_DEVICE, ERROR >>,
    << STOPPED, RECORDING >>, << RECORDING, RECORDED >>,
    << RECORDED, PLAYBACK >>, << PLAYBACK, RECORDED >>,
    << RECORDED, RECORDING >> }

\* C15: recording_state changes only along the listed transitions; STOPPED
\* is entered only with both devices open and ERROR only when an open has
\* failed; PLAYBACK is entered only from RECORDED, RECORDING only from
\* STOPPED or RECORDED, and ERROR is never left.
C15_OnlyListedTransitions ==
  [][ recording_state' # recording_state =>
        /\ << recording_state, recording_state' >> \in ListedTransitions
        /\ (recording_state' = STOPPED =>
              recording_deviceid' # 0 /\ playback_deviceid' # 0)
        /\ (recording_state' = ERROR =>
              recording_deviceid' = 0 \/ playback_deviceid' = 0) ]_vars

\* C15 witness: the recorder has gone all the way to PLAYBACK and is
\* about to return to RECORDED.
C15_Witness ==
  /\ recording_state = PLAYBACK
  /\ pc = "update_set_recorded"
  /\ branch = "playback"
  /\ Started("pause_recording")

\* update() is called where it has nothing to complete: the state is not
\* RECORDING or PLAYBACK, or the cursor is not past the maximum
NothingToComplete ==
  ~( /\ recording_state \in {RECORDING, PLAYBACK}
     /\ buffer_byte_position > buffer_byte_max_position )

\* C16: update() called in SELECTING_DEVICE, STOPPED, ERROR or RECORDED, or
\* in RECORDING or PLAYBACK with the cursor <= buffer_byte_max_position,
\* returns without taking a lock and leaves the state, the cursor, the
\* buffer and the pause status of both devices as they were, so that any
\* number of such calls leaves what one call leaves.
C16_TickIsNoOp ==
  [][ (pc = "update" /\ pc' \in {"while", "update_lock"} /\ NothingToComplete)
      => /\ pc' = "while"
         /\ lock = 0 /\ lock' = 0
         /\ branch' = "none"
         /\ recording_state' = recording_state
         /\ buffer_byte_position' = buffer_byte_position
         /\ recording_buffer' = recording_buffer
         /\ recording_paused' = recording_paused
         /\ playback_paused' = playback_paused ]_vars

\* C16 witness: update() was called in STOPPED and has returned.
C16_Witness ==
  /\ pc = "while"
  /\ recording_state = STOPPED
  /\ ~recording_buffer.null
  /\ lock = 0

\* every byte of storage is zero
StorageIsZero(buf) == ~buf.null /\ \A i \in 1..Len(buf.bytes) : buf.bytes[i] = 0

\* storage holds the bytes of the recording pass that fit the buffer
StorageIsRecording(buf) ==
  /\ ~buf.null
  /\ buf.bytes = SubSeq(captured, 1, Min(Len(captured), buffer_byte_size))

\* C17: the step that starts the capture device leaves the cursor at 0 and
\* storage all zero; the step that starts the playback device leaves the
\* cursor at 0 and storage as the recording pass left it.
C17_StartsFromZero ==
  [][ /\ (recording_paused /\ ~recording_paused') =>
            /\ buffer_byte_position' = 0
            /\ StorageIsZero(recording_buffer')
      /\ (playback_paused /\ ~playback_paused') =>
            /\ buffer_byte_position' = 0
            /\ recording_buffer' = recording_buffer
            /\ StorageIsRecording(recording_buffer') ]_vars

\* C17 witness: the playback device has just been started on a buffer that
\* holds a recording.
C17_Witness ==
  /\ pc = "main_set_playback"
  /\ ~playback_paused
  /\ buffer_byte_position = 0
  /\ Len(recording_buffer.bytes) > buffer_byte_max_position

\* C18: once both devices are open, the recording loop and then the
\* playback loop reach RECORDED and the process returns from main.
C18_BothLoopsEnd ==
  (recording_deviceid # 0 /\ playback_deviceid # 0)
    ~> (pc = "exited" /\ recording_state = RECORDED)

\* C19: during a playback pass the read cursor never passes the write
\* position at which the recording pass stopped, so only recorded bytes
\* are played.
C19_ReadWithinRecorded ==
  InPlaybackPass => buffer_byte_position <= Len(captured)

====
